---------------------------- MODULE Spec2Model ----------------------------
(***************************************************************************)
(* Model of the stock dashboard (src/app.py) and of the batch price        *)
(* updater (src/update_prices.py).                                         *)
(*                                                                         *)
(*   Spec     the dashboard's cached resolver: sidebar inputs, the clock,  *)
(*            st.cache_data(ttl=1800) around fetch_data, and the first     *)
(*            lines of the main workflow (app.py 45-47, 94-172).           *)
(*   SpecWF   the main workflow on one resolved frame, step by step        *)
(*            (app.py 134-142 and 174-218).                                *)
(*   SpecUpd  the per-ticker merge of update_prices.py (lines 34-75).      *)
(***************************************************************************)
EXTENDS Integers, Sequences, FiniteSets, TLC

VARIABLES
    td,          \* app.py 47: TRUE iff a TDClient was built (API key present)
    symbol,      \* app.py 110: symbol of the selected company
    exchange,    \* app.py 94: selected exchange
    start_date,  \* app.py 114
    end_date,    \* app.py 115
    now,         \* the clock read by the cache
    ticks,       \* number of clock advances so far
    cache,       \* entries of st.cache_data for fetch_data, by (symbol, exchange)
    last,        \* what the latest script run with the button pressed did
    shown,       \* what the page shows (app.py 164-172, 289-290)
    pc,          \* SpecWF: position in the main workflow
    source,      \* SpecWF: provider tag of the frame
    raw,         \* SpecWF: the provider's frame as received
    data,        \* SpecWF: the frame the workflow works on
    outcome,     \* SpecWF: message of the st.error that stopped the run, or "none"
    ind,         \* SpecWF: the computed indicators
    price_db,    \* SpecUpd: symbol -> rows of price_db/<symbol>.csv
    runs,        \* SpecUpd: update runs so far
    merged       \* SpecUpd: per symbol, the dates going into and out of its latest merge

dashVars == <<td, symbol, exchange, start_date, end_date, now, ticks, cache, last, shown>>
wfVars   == <<pc, source, raw, data, outcome, ind>>
updVars  == <<price_db, runs, merged>>
vars     == <<dashVars, wfVars, updVars>>

-----------------------------------------------------------------------------
(* Bounds and program constants *)

TTL == 1800          \* app.py 120
OutputSize == 500    \* app.py 130
ShortWindow == 20    \* app.py 201
LongWindow == 50     \* app.py 195, 202
BATCH_SIZE == 50     \* update_prices.py 27

MaxTicks == 2        \* clock advances per behaviour
Margin == 3          \* frame lengths range over LongWindow-Margin .. LongWindow+Margin
MaxRuns == 2         \* update runs per behaviour

Days   == {1, 2}     \* trading days a provider may hold bars for
TDHoldings == {{2}, {1, 2}}        \* histories TwelveData may hold (subsets of Days)
YFHoldings == {{}, {2}, {1, 2}}    \* histories yfinance may hold
Starts == {1, 2}     \* values of the Start Date input
Ends   == {3}        \* values of the End Date input (date.today())
TickSteps == {1, TTL - 1, TTL}

-----------------------------------------------------------------------------
(* Company list (load_companies): NSE symbols are strings, BSE symbols are *)
(* the numeric SCRIP_CD column.                                            *)

Companies ==
    { [name |-> "Reliance Industries", sym |-> [text |-> "RELIANCE", numeric |-> FALSE], exch |-> "NSE"],
      [name |-> "Reliance BSE",        sym |-> [text |-> "500325",   numeric |-> TRUE],  exch |-> "BSE"] }

Key(sym, exch) == <<sym, exch>>
Keys == { Key(c.sym, c.exch) : c \in Companies }

\* results of a call of fetch_data
NoData == [kind |-> "none",  prov |-> "", dates |-> {}]
Raised == [kind |-> "raise", prov |-> "", dates |-> {}]
Series(p, ds) == [kind |-> "series", prov |-> p, dates |-> ds]

\* provider responses
TDResponses ==
    { [kind |-> k, dates |-> {}] : k \in {"exc", "empty"} }
        \cup { [kind |-> "data", dates |-> ds] : ds \in TDHoldings }
YFResponses ==
    { [kind |-> "exc", dates |-> {}] }
        \cup { [kind |-> "data", dates |-> ds] : ds \in YFHoldings }

NoEntry == [present |-> FALSE, val |-> NoData, at |-> 0, win |-> <<0, 0>>]
NoCall  == [called |-> FALSE, time |-> 0, hit |-> FALSE, priorPresent |-> FALSE,
            priorAt |-> 0, tdCalled |-> FALSE, yfCalled |-> FALSE,
            tdHas |-> FALSE, yfHas |-> FALSE, ret |-> NoData]

-----------------------------------------------------------------------------
(* fetch_data, app.py 120-161 *)

CacheLive_Inclusive(entry, t) == entry.present /\ t <= entry.at + TTL

\* td.time_series(..., outputsize=500).as_pandas(): the latest OutputSize bars
\* the provider holds; the request carries no start or end date.
TDFrame(tdR) == { d \in tdR.dates : Cardinality({ e \in tdR.dates : e > d }) < OutputSize }

\* yf.download(ticker, start=start_date, end=end_date): start inclusive, end exclusive
YFFrame(yfR, s, e) == { d \in yfR.dates : s <= d /\ d < e }

\* app.py 147: symbol + ".NS"/".BO"; str + str concatenates, int + str raises TypeError
TickerRaises(sym) == sym.numeric

\* app.py 124-144: the TwelveData branch returns iff the client exists, the call
\* did not raise and the frame is non-empty
TDSucceeds(client, tdR) == client /\ tdR.kind = "data" /\ TDFrame(tdR) # {}

\* app.py 149-159
YFSucceeds(yfR, s, e) == yfR.kind = "data" /\ YFFrame(yfR, s, e) # {}

\* The body of fetch_data: result and which providers were called.
fetch_data(sym, exch, client, s, e, tdR, yfR) ==
    IF TDSucceeds(client, tdR)
    THEN [ret |-> Series("TwelveData", TDFrame(tdR)), tdCalled |-> TRUE, yfCalled |-> FALSE]
    ELSE IF TickerRaises(sym)
    THEN [ret |-> Raised, tdCalled |-> client, yfCalled |-> FALSE]
    ELSE IF YFSucceeds(yfR, s, e)
    THEN [ret |-> Series("yfinance", YFFrame(yfR, s, e)), tdCalled |-> client, yfCalled |-> TRUE]
    ELSE [ret |-> NoData, tdCalled |-> client, yfCalled |-> TRUE]

-----------------------------------------------------------------------------
(* st.cache_data(ttl=1800), app.py 120.  The decorator keys an entry by the *)
(* function's arguments only, stores whatever the function returns (None    *)
(* included) and nothing when it raises; its TTLCache keeps an entry live   *)
(* while timer() < stored + ttl.                                            *)

CacheLive(entry, t) == entry.present /\ t < entry.at + TTL

CacheKey(sym, exch, s, e) == Key(sym, exch)

Cacheable(ret) == ret.kind # "raise"

-----------------------------------------------------------------------------
(* Actions of the dashboard *)

\* app.py 94-112: choosing exchange and company reruns the script without the button
Select(c) ==
    /\ <<c.sym, c.exch>> # <<symbol, exchange>>
    /\ symbol' = c.sym
    /\ exchange' = c.exch
    /\ last' = NoCall
    /\ shown' = "info"
    /\ UNCHANGED <<td, start_date, end_date, now, ticks, cache, wfVars, updVars>>

\* app.py 114-115
SetWindow(s, e) ==
    /\ <<s, e>> # <<start_date, end_date>>
    /\ start_date' = s
    /\ end_date' = e
    /\ last' = NoCall
    /\ shown' = "info"
    /\ UNCHANGED <<td, symbol, exchange, now, ticks, cache, wfVars, updVars>>

Tick(d) ==
    /\ ticks < MaxTicks
    /\ now' = now + d
    /\ ticks' = ticks + 1
    /\ UNCHANGED <<td, symbol, exchange, start_date, end_date, cache, last, shown, wfVars, updVars>>

\* app.py 117, 164-172: the button is pressed; tdR and yfR are what the two
\* providers would answer at this moment.
Fetch(tdR, yfR) ==
    LET k     == CacheKey(symbol, exchange, start_date, end_date)
        entry == cache[k]
        hit   == CacheLive(entry, now)
        run   == fetch_data(symbol, exchange, td, start_date, end_date, tdR, yfR)
        ret   == IF hit THEN entry.val ELSE run.ret
    IN  /\ cache' = IF ~hit /\ Cacheable(ret)
                    THEN [cache EXCEPT ![k] = [present |-> TRUE, val |-> ret, at |-> now,
                                               win |-> <<start_date, end_date>>]]
                    ELSE cache
        /\ last' = [called |-> TRUE, time |-> now, hit |-> hit,
                    priorPresent |-> entry.present, priorAt |-> entry.at,
                    tdCalled |-> ~hit /\ run.tdCalled,
                    yfCalled |-> ~hit /\ run.yfCalled,
                    tdHas |-> tdR.kind = "data" /\ TDFrame(tdR) # {},
                    yfHas |-> YFSucceeds(yfR, start_date, end_date),
                    ret |-> ret]
        /\ shown' = CASE ret.kind = "raise" -> "traceback"
                      [] ret.kind = "none"  -> "No data available."
                      [] OTHER              -> "Data source"
        /\ UNCHANGED <<td, symbol, exchange, start_date, end_date, now, ticks, wfVars, updVars>>

\* what the other specifications' variables hold while the dashboard runs
NoFrame == [multi |-> FALSE, cols |-> {}, rows |-> <<>>]
NoInd == [computed |-> FALSE, annual_return |-> [num |-> 0, den |-> 1],
          volatility |-> "zero", sharpe |-> "zero",
          ma20 |-> [defined |-> FALSE, sum |-> 0],
          ma50 |-> [defined |-> FALSE, sum |-> 0], signal |-> ""]
UniverseList == <<"INFY", "TCS">>      \* update_prices.py 13-14: symbols, in file order
Symbols == { UniverseList[i] : i \in 1..Len(UniverseList) }
NoFile == [exists |-> FALSE, rows |-> <<>>]
NoMerge == [old |-> {}, new |-> {}, result |-> {}]

DashIdle ==
    /\ td = FALSE
    /\ symbol = [text |-> "RELIANCE", numeric |-> FALSE] /\ exchange = "NSE"
    /\ start_date = 1 /\ end_date = 3 /\ now = 0 /\ ticks = 0
    /\ cache = [k \in Keys |-> NoEntry] /\ last = NoCall /\ shown = "info"
WFIdle ==
    pc = "idle" /\ source = "" /\ raw = NoFrame /\ data = NoFrame /\ outcome = "none" /\ ind = NoInd
UpdIdle ==
    price_db = [s \in Symbols |-> NoFile] /\ runs = 0 /\ merged = [s \in Symbols |-> NoMerge]

Init ==
    /\ td \in BOOLEAN
    /\ \E c \in Companies : symbol = c.sym /\ exchange = c.exch
    /\ start_date = 1
    /\ end_date = 3
    /\ now = 0
    /\ ticks = 0
    /\ cache = [k \in Keys |-> NoEntry]
    /\ last = NoCall
    /\ shown = "info"
    /\ WFIdle
    /\ UpdIdle

Next ==
    \/ \E c \in Companies : Select(c)
    \/ \E s \in Starts, e \in Ends : SetWindow(s, e)
    \/ \E d \in TickSteps : Tick(d)
    \/ \E tdR \in TDResponses, yfR \in YFResponses : Fetch(tdR, yfR)

Spec == Init /\ [][Next]_vars

-----------------------------------------------------------------------------
(* Properties of the cached resolver *)

CurKey == CacheKey(symbol, exchange, start_date, end_date)
InWindow(d) == start_date <= d /\ d <= end_date

\* C1: a request for the same symbol and venue but another [startDate, endDate]
\* window than the one an entry was resolved for is a cache miss: a call served
\* from the cache is served an entry resolved for the requested window.
C1_KeyIncludesWindow ==
    (last.called /\ last.hit) => cache[CurKey].win = <<start_date, end_date>>

\* C2: a failed resolution is never cached: a call that ends with the no-data
\* outcome has invoked the providers, and a call made while a provider has data
\* the resolver can reach does not end with no data.
C2_FailureNeverCached ==
    last.called =>
        /\ (last.ret.kind = "none" => ~last.hit)
        /\ (last.ret.kind = "none" => ~(td /\ last.tdHas) /\ ~last.yfHas)

\* C3: first success wins over TwelveData then yfinance: a resolution returns the
\* first non-empty provider's series under its name, never calls yfinance after
\* a non-empty TwelveData answer, goes on to yfinance otherwise, and returns
\* (None, None) iff every provider was empty or failed.
C3_FirstSuccessWins ==
    (last.called /\ ~last.hit) =>
        LET tdOk == td /\ last.tdHas
        IN  /\ tdOk => last.ret.kind = "series" /\ last.ret.prov = "TwelveData" /\ ~last.yfCalled
            /\ ~tdOk => last.yfCalled
            /\ (~tdOk /\ last.yfHas) => last.ret.kind = "series" /\ last.ret.prov = "yfinance"
            /\ (last.ret = NoData) <=> (~tdOk /\ ~last.yfHas)

C5_BarsInsideWindow ==
    (last.called /\ last.ret.kind = "series") => \A d \in last.ret.dates : InWindow(d)

\* C6: fetch_data never raises: every call ends with a series or with (None, None).
C6_NeverRaises ==
    last.called => last.ret.kind \in {"series", "none"}

\* C7: without the API key, a request for which yfinance has data ends with a
\* series tagged "yfinance".
C7_NoKeyFallsBack ==
    (last.called /\ ~td /\ last.yfHas) =>
        last.ret.kind = "series" /\ last.ret.prov = "yfinance"

-----------------------------------------------------------------------------
(* The main workflow on one resolved frame, app.py 134-142 and 174-218.    *)
(* A frame is its column index (multi-level or flat, and the names of its  *)
(* first level) and its rows; a row carries its date, the value of the     *)
(* frame's close-price field and whether that value is missing (NaN).      *)

InvalidFormat == "Invalid data format."
MissingClose  == "Price data missing 'Close' column from data provider."
NotEnough     == "Not enough data for analysis."

Shapes == {"rising", "falling", "flat"}
ClosePrice(shape, d) ==
    CASE shape = "rising"  -> 100 + d
      [] shape = "falling" -> 200 - d
      [] OTHER             -> 100

\* TwelveData answers newest bar first, yfinance oldest bar first
RowsOf(n, nas, shape, newestFirst) ==
    [i \in 1..n |->
        LET d == IF newestFirst THEN n + 1 - i ELSE i
        IN  [date |-> d, close |-> ClosePrice(shape, d), na |-> d \in nas]]

\* provider-native column layouts
TDLayouts == { [multi |-> FALSE, cols |-> c] : c \in {{"open", "close"}, {"open"}} }
YFLayouts == { [multi |-> m, cols |-> {"Open"} \cup c] :
                 m \in BOOLEAN, c \in SUBSET {"Close", "close", "Adj Close"} }

Lengths == (LongWindow - Margin)..(LongWindow + Margin)
NaSlots(n) == {1, n \div 2, n}

\* `name in data.columns`: a flat index holds the name; a MultiIndex holds it as
\* a key of its first level
HasColumn(d, name) == name \in d.cols

\* df.rename(columns={from: to})
Rename(d, from, to) ==
    IF from \in d.cols THEN [d EXCEPT !.cols = (d.cols \ {from}) \cup {to}] ELSE d

\* df.sort_index(): rows by ascending date
SortIndex(d) ==
    [d EXCEPT !.rows =
        [i \in 1..Len(d.rows) |->
            CHOOSE r \in { d.rows[j] : j \in 1..Len(d.rows) } :
                Cardinality({ j \in 1..Len(d.rows) : d.rows[j].date < r.date }) = i - 1]]

\* app.py 134-142 (TwelveData: sort, rename to capitalised names) and 156-157
\* (yfinance: the frame as downloaded)
Normalise(d, prov) ==
    IF prov = "TwelveData"
    THEN Rename(Rename(Rename(Rename(SortIndex(d), "open", "Open"), "high", "High"),
                       "low", "Low"), "close", "Close")
    ELSE d

\* app.py 180-181
Flatten(d) == IF d.multi THEN [d EXCEPT !.multi = FALSE] ELSE d

\* app.py 183-187
MapClose(d) ==
    LET a == IF HasColumn(d, "close") /\ ~HasColumn(d, "Close")
             THEN Rename(d, "close", "Close") ELSE d
    IN  IF HasColumn(a, "Adj Close") /\ ~HasColumn(a, "Close")
        THEN Rename(a, "Adj Close", "Close") ELSE a

\* app.py 193: data.dropna(subset=["Close"])
Dropna(d) == [d EXCEPT !.rows = SelectSeq(d.rows, LAMBDA r : ~r.na)]

InsufficientData_OffByOne(d) == Len(d.rows) < LongWindow - 1

\* app.py 195
InsufficientData(d) == Len(d.rows) < LongWindow

RECURSIVE SumClose(_, _, _)
SumClose(rows, lo, hi) == IF lo > hi THEN 0 ELSE rows[lo].close + SumClose(rows, lo + 1, hi)

\* Series.rolling(w).mean() at the last row: defined iff the trailing w rows
\* exist and none is missing
RollingLast(rows, w) ==
    LET n == Len(rows)
        ok == n >= w /\ \A i \in (n - w + 1)..n : ~rows[i].na
    IN  [defined |-> ok, sum |-> IF ok THEN SumClose(rows, n - w + 1, n) ELSE 0]

\* Return = Close.pct_change(); its sample standard deviation is NaN with fewer
\* than two returns, zero iff all returns are equal, positive otherwise
ReturnsEqual(rows) ==
    \A i \in 3..Len(rows) :
        (rows[i].close - rows[i-1].close) * rows[1].close
            = (rows[2].close - rows[1].close) * rows[i-1].close
StdKind(rows) ==
    IF Len(rows) < 3 THEN "nan" ELSE IF ReturnsEqual(rows) THEN "zero" ELSE "pos"

\* app.py 200-218
Indicators(d) ==
    LET rows == d.rows
        n    == Len(rows)
        ar   == [num |-> rows[n].close - rows[1].close, den |-> rows[1].close]
        std  == StdKind(rows)
        m20  == RollingLast(rows, ShortWindow)
        m50  == RollingLast(rows, LongWindow)
    IN  [computed |-> TRUE,
         annual_return |-> ar,
         volatility |-> IF std = "nan" THEN "zero" ELSE std,
         sharpe |-> IF std \in {"nan", "zero"} \/ ar.num = 0 THEN "zero"
                    ELSE IF ar.num > 0 THEN "pos" ELSE "neg",
         ma20 |-> m20,
         ma50 |-> m50,
         signal |-> IF m20.defined /\ m50.defined /\ m20.sum * LongWindow > m50.sum * ShortWindow
                    THEN "BUY" ELSE "SELL"]

Stop(msg) == pc' = "stopped" /\ outcome' = msg

\* fetch_data hands the frame over (app.py 166)
Resolve ==
    /\ pc = "fetch"
    /\ data' = Normalise(raw, source)
    /\ pc' = "check_required"
    /\ UNCHANGED <<source, raw, outcome, ind, dashVars, updVars>>

\* app.py 174-177
CheckRequired ==
    /\ pc = "check_required"
    /\ IF ~HasColumn(data, "Close") THEN Stop(InvalidFormat)
       ELSE pc' = "map" /\ UNCHANGED outcome
    /\ UNCHANGED <<source, raw, data, ind, dashVars, updVars>>

\* app.py 179-187
MapColumns ==
    /\ pc = "map"
    /\ data' = MapClose(Flatten(data))
    /\ pc' = "check_close"
    /\ UNCHANGED <<source, raw, outcome, ind, dashVars, updVars>>

\* app.py 189-191
CheckClose ==
    /\ pc = "check_close"
    /\ IF ~HasColumn(data, "Close") THEN Stop(MissingClose)
       ELSE pc' = "guard" /\ UNCHANGED outcome
    /\ UNCHANGED <<source, raw, data, ind, dashVars, updVars>>

\* app.py 193-197
LengthGuard ==
    /\ pc = "guard"
    /\ data' = Dropna(data)
    /\ IF InsufficientData(data') THEN Stop(NotEnough)
       ELSE pc' = "calc" /\ UNCHANGED outcome
    /\ UNCHANGED <<source, raw, ind, dashVars, updVars>>

\* app.py 199-218
Calculations ==
    /\ pc = "calc"
    /\ ind' = Indicators(data)
    /\ pc' = "done"
    /\ UNCHANGED <<source, raw, data, outcome, dashVars, updVars>>

InitWF ==
    /\ DashIdle
    /\ UpdIdle
    /\ pc = "fetch"
    /\ \E n \in Lengths, shape \in Shapes :
         \E nas \in SUBSET NaSlots(n) :
            \/ /\ source = "TwelveData"
               /\ \E l \in TDLayouts :
                    raw = [multi |-> l.multi, cols |-> l.cols, rows |-> RowsOf(n, nas, shape, TRUE)]
            \/ /\ source = "yfinance"
               /\ \E l \in YFLayouts :
                    raw = [multi |-> l.multi, cols |-> l.cols, rows |-> RowsOf(n, nas, shape, FALSE)]
    /\ data = NoFrame
    /\ outcome = "none"
    /\ ind = NoInd

NextWF ==
    \/ Resolve
    \/ CheckRequired
    \/ MapColumns
    \/ CheckClose
    \/ LengthGuard
    \/ Calculations

SpecWF == InitWF /\ [][NextWF]_vars

-----------------------------------------------------------------------------
(* Properties of the main workflow *)

\* the frame fetch_data returns for the provider's frame
Resolved == Normalise(raw, source)
\* rows of the provider's frame that have a close price
CloseBars == Cardinality({ i \in 1..Len(raw.rows) : ~raw.rows[i].na })
Finished == pc \in {"done", "stopped"}
NativeCloseNames == {"Close", "close", "Adj Close"}

\* C8: a series with fewer than LongWindow bars having a close price stops
\* with the insufficient-data error and no indicator is computed; with
\* LongWindow or more such bars the indicators are computed and MA20 and MA50
\* are both defined at the last bar when the signal is evaluated.  A series is
\* a frame whose close prices stand in the "Close" column fetch_data returns.
C8_LengthPrecondition ==
    /\ ~Finished => ~ind.computed
    /\ (Finished /\ CloseBars < LongWindow) => pc = "stopped" /\ ~ind.computed
    /\ (Finished /\ HasColumn(Resolved, "Close") /\ CloseBars < LongWindow) =>
            outcome = NotEnough
    /\ (Finished /\ HasColumn(Resolved, "Close") /\ CloseBars >= LongWindow) =>
            /\ pc = "done" /\ outcome = "none" /\ ind.computed
            /\ ind.ma20.defined /\ ind.ma50.defined
            /\ ind.signal \in {"BUY", "SELL"}

\* a frame of LongWindow rows or more, exactly LongWindow - 1 of them with a
\* close price, stopped by the length guard
C8_Witness ==
    /\ pc = "stopped" /\ outcome = NotEnough
    /\ Len(raw.rows) >= LongWindow
    /\ CloseBars = LongWindow - 1

\* C9: a request is rejected for a missing close field only if the frame has no
\* recognizable close-price field under any provider-native name; a frame whose
\* close price stands under a native name only goes on to the analysis.
C9_MappingBeforeRejection ==
    (pc = "stopped" /\ outcome \in {InvalidFormat, MissingClose}) =>
        Resolved.cols \cap NativeCloseNames = {}

-----------------------------------------------------------------------------
(* update_prices.py: the batch download and the per-ticker merge into      *)
(* price_db/<symbol>.csv.  A row is its date (the index) and px, standing   *)
(* for the row's column values (Open, High, Low, Close, Volume); na marks a *)
(* row with a missing value.                                               *)

UpdDays == {1, 2}                      \* dates a download may cover (period="5d")
Px == {10, 11}                         \* column values of a row

\* update_prices.py 20 and 51
TickerOf(sym) == <<sym, ".NS">>
SymbolOf(ticker) == ticker[1]
TOTAL == Len(UniverseList)

\* update_prices.py 34-36: batch number of the i-th ticker
BatchOf(i) == (i - 1) \div BATCH_SIZE + 1
NumBatches == (TOTAL + BATCH_SIZE - 1) \div BATCH_SIZE

\* what yf.download holds for one ticker: rows by ascending date, dates unique
RECURSIVE RowSeqs(_)
RowSeqs(days) ==
    IF days = {} THEN {<<>>}
    ELSE LET d == CHOOSE x \in days : \A y \in days : x >= y
         IN  RowSeqs(days \ {d})
                \cup { Append(r, [date |-> d, px |-> p, na |-> FALSE]) :
                          r \in RowSeqs(days \ {d}), p \in Px }
                \cup { Append(r, [date |-> d, px |-> 0, na |-> TRUE]) :
                          r \in RowSeqs(days \ {d}) }
Downloads ==
    { [present |-> FALSE, rows |-> <<>>] }
        \cup { [present |-> TRUE, rows |-> r] : r \in RowSeqs(UpdDays) }

\* update_prices.py 58: df[ticker].dropna()
DropnaRows(rows) == SelectSeq(rows, LAMBDA r : ~r.na)

\* DataFrame.drop_duplicates(): a row is dropped iff an earlier row has the same
\* column values; the index (the date) is not compared
RECURSIVE DropDuplicates(_)
DropDuplicates(rows) ==
    IF rows = <<>> THEN <<>>
    ELSE LET n    == Len(rows)
             init == DropDuplicates(SubSeq(rows, 1, n - 1))
         IN  IF \E i \in 1..(n - 1) : rows[i].px = rows[n].px
             THEN init ELSE Append(init, rows[n])

\* update_prices.py 63-67: rows written to the symbol's file
MergeRows(file, stock_df) ==
    IF file.exists THEN DropDuplicates(file.rows \o stock_df) ELSE stock_df

DatesOf(rows) == { rows[i].date : i \in 1..Len(rows) }

\* update_prices.py 50-70 for one ticker: TRUE iff the file is written
Writes(dl) == dl.present /\ DropnaRows(dl.rows) # <<>>

\* update_prices.py 34-75: one run of the script.  fails is the set of batches
\* whose download raises, dl what the download holds for each symbol.
UpdateRun(fails, dl) ==
    /\ runs < MaxRuns
    /\ runs' = runs + 1
    /\ LET written == { i \in 1..TOTAL :
                          BatchOf(i) \notin fails /\ Writes(dl[SymbolOf(TickerOf(UniverseList[i]))]) }
           pos(sym) == CHOOSE i \in 1..TOTAL : UniverseList[i] = sym
           out(sym) == MergeRows(price_db[sym], DropnaRows(dl[sym].rows))
       IN  /\ price_db' = [sym \in Symbols |->
                             IF pos(sym) \in written
                             THEN [exists |-> TRUE, rows |-> out(sym)]
                             ELSE price_db[sym]]
           /\ merged' = [sym \in Symbols |->
                           IF pos(sym) \in written
                           THEN [old |-> DatesOf(price_db[sym].rows),
                                 new |-> DatesOf(DropnaRows(dl[sym].rows)),
                                 result |-> DatesOf(out(sym))]
                           ELSE NoMerge]
    /\ UNCHANGED <<dashVars, wfVars>>

InitUpd ==
    /\ DashIdle
    /\ WFIdle
    /\ price_db = [sym \in Symbols |-> NoFile]
    /\ runs = 0
    /\ merged = [sym \in Symbols |-> NoMerge]

NextUpd ==
    \E fails \in SUBSET (1..NumBatches), dl \in [Symbols -> Downloads] : UpdateRun(fails, dl)

SpecUpd == InitUpd /\ [][NextUpd]_vars

-----------------------------------------------------------------------------
(* Properties of the price store *)

UniqueDates(rows) ==
    \A i, j \in 1..Len(rows) : i # j => rows[i].date # rows[j].date

\* C10: after any sequence of update runs every symbol's file has at most one
\* row per date, and a merge never drops the row of a date that was not stored
\* before it.
C10_UniqueDates ==
    \A sym \in Symbols :
        /\ UniqueDates(price_db[sym].rows)
        /\ (merged[sym].new \ merged[sym].old) \subseteq merged[sym].result

=============================================================================
